---- MODULE Spec2Model ----
(***************************************************************************)
(* Well-Architected review orchestration of uurtech/waar.                  *)
(*                                                                         *)
(* The model follows WellArchitectedReviewService (services/aws.js,        *)
(* lines 365-686), the routes that drive it (routes/analysis.js, lines     *)
(* 1519-1646), the three BedrockService entry points it calls              *)
(* (services/bedrock.js, lines 847-1080) and the SQLite schema of          *)
(* database/init.js.  Every `await` of a handler is a point where another  *)
(* handler may run, so each handler is a small process whose steps are the *)
(* code between two awaits.                                                *)
(***************************************************************************)
EXTENDS Integers, Sequences, FiniteSets, Bags, TLC

\* ---------------------------------------------------------------- bounds
\* Number of rows of the questions table (init.js seeds 30; the model keeps
\* a few, all with the schema's default priority).
NumQuestions == 2
\* Session ids that POST /start may allocate.
MaxSessions == 1
\* submitUserAnswer requests that may be issued in one behaviour.
MaxCalls == 2
\* Longest autoAnswers list the engine returns.
MaxAuto == 1
\* Longest additionalAnswers list the engine returns.
MaxDerived == 1

\* ------------------------------------------------------- program constants
\* confidence_score of a user answer, 0.9 (aws.js:526), in hundredths
UserConfidence == 90
\* questions.priority DEFAULT 1 (init.js:111); insertDefaultQuestions sets none
DefaultPriority == 1

\* ------------------------------------------------------------- value sets
SessionIds == 1..MaxSessions
\* an id that POST /start never handed out (ids are uuidv4 values)
UnknownSession == 0
AllSessionIds == SessionIds \cup {UnknownSession}
\* the id of a session that an earlier POST /start created, where the
\* database file holds one when the process starts
OtherSession == MaxSessions + 1
\* the ids a row of analysis_sessions can carry
TableIds == SessionIds \cup {OtherSession}

QuestionIds == 1..NumQuestions
\* question_key is UNIQUE (init.js:109): a known key is identified with the
\* id of its row; BadKey is a key no row carries.
BadKey == 0
QuestionKeys == QuestionIds \cup {BadKey}

CallIds == 1..MaxCalls

\* Answer texts.  The code never looks into a text, so the text of a request
\* is named after the request that carries it, which keeps the texts of two
\* requests apart; EmptyText is the empty string.
EmptyText == <<"empty", 0>>
UserText(c) == <<"user", c>>
AutoText == <<"auto", 0>>
DerivedText == <<"derived", 0>>
\* confidences the engine attaches to its answers, in hundredths: the values
\* of the examples in the two prompts (bedrock.js:869 and bedrock.js:936)
AutoConfidence == 85
DerivedConfidence == 75

RECURSIVE SeqsUpTo(_, _)
SeqsUpTo(S, n) ==
  IF n = 0 THEN {<<>>}
  ELSE LET shorter == SeqsUpTo(S, n - 1)
       IN shorter \cup {Append(sq, x) : sq \in {t \in shorter : Len(t) = n - 1}, x \in S}

\* what JSON.parse of the engine's text can carry in autoAnswers
AutoEntries == [questionKey : QuestionKeys, answer : {AutoText}, confidence : {AutoConfidence}]
AutoAnswerLists == SeqsUpTo(AutoEntries, MaxAuto)
\* what JSON.parse of the engine's text can carry in additionalAnswers
DerivedEntries == [questionKey : QuestionKeys, answer : {DerivedText}, confidence : {DerivedConfidence}]
DerivedLists == SeqsUpTo(DerivedEntries, MaxDerived)

\* The text the engine answers the auto-answer request with: either it holds
\* no JSON object that parses, or it parses to an object with this list of
\* auto-answers.
UnparsableAuto == [parsable |-> FALSE, autoAnswers |-> <<>>]
AutoResponses ==
  {UnparsableAuto} \cup [parsable : {TRUE}, autoAnswers : AutoAnswerLists]
\* the response of a run that has not asked the engine yet
NoAutoResponse == [parsable |-> TRUE, autoAnswers |-> <<>>]

\* analyzeAWSDataForWellArchitected after analyzeText: JSON.parse of the
\* matched text, or the fallback object, whose autoAnswers is []
ParseAutoAnswers(response) ==
  IF response.parsable THEN response.autoAnswers ELSE <<>>

\* The text the engine answers the derivation request with: either it holds
\* no JSON object that parses, or it parses to an object with this list of
\* additional answers.
Unparsable == [parsable |-> FALSE, additionalAnswers |-> <<>>]
DerivationResponses ==
  {Unparsable} \cup [parsable : {TRUE}, additionalAnswers : DerivedLists]
\* the response of a request that has not asked the engine yet
NoResponse == [parsable |-> TRUE, additionalAnswers |-> <<>>]

\* analyzeUserAnswer after analyzeText: JSON.parse of the matched text, or the
\* fallback object, whose additionalAnswers is []
ParseAdditionalAnswers(response) ==
  IF response.parsable THEN response.additionalAnswers ELSE <<>>

VARIABLES
  hasProgressColumn,  \* whether analysis_sessions has a progress_data column
  sessions,           \* analysis_sessions rows, by id
  answers,            \* answers rows, as a bag (no statement reads the AUTOINCREMENT id)
  run,                \* the detached startReview run of each session
  calls,              \* the submitUserAnswer requests
  startResponse,      \* what POST /start answered for each session id
  reportCalls         \* how often generateFinalReport was entered, per session id

vars == <<hasProgressColumn, sessions, answers, run, calls, startResponse, reportCalls>>

\* ------------------------------------------------------------ the tables
NoSession == [analysis_status |-> "absent", bedrock_analysis |-> "null",
              recommendations |-> "null", progress_data |-> 0]

SessionExists(s) == s \in TableIds /\ sessions[s].analysis_status # "absent"

\* ------------------------------------------- comprehensive collection, values
\* the six analyses of performComprehensiveAnalysis, in the order of the keys
\* of serviceResults (routes/index.js:1287-1292)
CollectorOrder == <<"trustedAdvisor", "cost", "iam", "compute", "cloudWatch", "config">>
Collectors == {CollectorOrder[i] : i \in DOMAIN CollectorOrder}

\* How the promise of one analysis settles.  Every analysis returns
\* {success: true, data} or, from its catch, {success: false, error, data: null};
\* analyzeTrustedAdvisor also returns the SUBSCRIPTION_REQUIRED result, with a
\* placeholder as data.  "rejected" is the promise rejecting, which the join
\* of Promise.allSettled provides for.
SettledOutcomes(k) ==
  {"ok", "failed", "rejected"} \cup (IF k = "trustedAdvisor" THEN {"subscription"} ELSE {})

\* awsAnalysis before performComprehensiveAnalysis has returned
NoAnalysis == [success |-> FALSE, data |-> "none"]

IdleRun == [pc |-> "none", response |-> NoAutoResponse, agentAnalysis |-> <<>>,
            idx |-> 0, unanswered |-> 0,
            collectors |-> [k \in Collectors |-> "idle"], awsAnalysis |-> NoAnalysis]

\* what a request answers: the fields of the JSON bodies of the three routes
\* that the model follows (error is error.message)
NoResult == [outcome |-> "none", error |-> "none", isComplete |-> FALSE,
             additionalAnswersCount |-> 0, nextQuestion |-> 0, status |-> "none",
             answeredQuestions |-> 0, remainingQuestions |-> 0, progress |-> 0,
             report |-> "null"]
IdleCall == [pc |-> "idle", sessionId |-> UnknownSession, questionKey |-> BadKey,
             userAnswer |-> EmptyText, response |-> NoResponse,
             additionalAnswers |-> <<>>, idx |-> 0,
             unanswered |-> <<>>, report |-> "null", result |-> NoResult]

\* The state once initializeDatabase has run and before any request.
\* createTables issues CREATE TABLE IF NOT EXISTS, and the database file lives
\* on a volume that outlives the process: a table that is already there keeps
\* its columns.  The statement of init.js:133-143 declares no progress_data
\* column, while aws.js:389 and aws.js:464 write one, so both a table without
\* the column (a fresh database) and a table with it are start states.
Init ==
  /\ hasProgressColumn \in BOOLEAN
  /\ sessions = [s \in TableIds |-> NoSession]
  /\ answers = EmptyBag
  /\ run = [s \in SessionIds |-> IdleRun]
  /\ calls = [c \in CallIds |-> IdleCall]
  /\ startResponse = [s \in SessionIds |-> "none"]
  /\ reportCalls = [s \in AllSessionIds \cup {OtherSession} |-> 0]


\* ---------------------------------------------------------- SQL helpers
\* SELECT id FROM questions WHERE question_key = ?
QuestionByKey(key) == IF key \in QuestionIds THEN key ELSE 0

\* The rows insertDefaultQuestions seeds, in the order of their ids; the model
\* keeps the first NumQuestions of this sample of the thirty (OPS01 is row 1,
\* COST01 row 21, SUS01 row 26, SUS02 row 27).
SeedQuestions ==
  << [key |-> "OPS01", pillar |-> "Operational Excellence", category |-> "Organization"],
     [key |-> "COST01", pillar |-> "Cost Optimization",
      category |-> "Practice Cloud Financial Management"],
     [key |-> "SUS01", pillar |-> "Sustainability", category |-> "Region Selection"],
     [key |-> "SUS02", pillar |-> "Sustainability", category |-> "User Behavior Patterns"] >>

\* p.name as pillar_name, through JOIN pillars p ON q.pillar_id = p.id
PillarName(q) == SeedQuestions[q].pillar

\* q.category
Category(q) == SeedQuestions[q].category

\* questions.priority: no INSERT of init.js sets it, so every row has the default
Priority(q) == DefaultPriority

\* InsertOrReplaceAnswer on a table with UNIQUE(question_id, session_id): the
\* row of the pair, if there is one, is replaced
InsertOrReplaceAnswerUnique(rows, q, s, text, conf, src) ==
  LET kept == {x \in BagToSet(rows) : ~(x.session_id = s /\ x.question_id = q)}
  IN [r \in kept |-> rows[r]]
       (+) SetToBag({[question_id |-> q, session_id |-> s, answer_text |-> text,
                      confidence_score |-> conf, source |-> src]})

\* INSERT OR REPLACE INTO answers (question_id, session_id, answer_text,
\* confidence_score, source, created_at).  The only key of the table is the
\* AUTOINCREMENT id, which the statement does not give, so no row ever
\* conflicts and the statement appends a row.
InsertOrReplaceAnswer(rows, q, s, text, conf, src) ==
  rows (+) SetToBag({[question_id |-> q, session_id |-> s, answer_text |-> text,
                       confidence_score |-> conf, source |-> src]})

\* the rows of one (session, question) pair, with their multiplicities
RowsOf(rows, s, q) ==
  [r \in {x \in BagToSet(rows) : x.session_id = s /\ x.question_id = q} |-> rows[r]]

\* Before for ORDER BY q.priority DESC alone: rows of equal priority are in
\* no order
BeforeByPriority(a, b) == Priority(a) > Priority(b)

\* ORDER BY q.priority DESC, q.id ASC
Before(a, b) == Priority(a) > Priority(b) \/ (Priority(a) = Priority(b) /\ a < b)

RECURSIVE OrderQuestions(_)
OrderQuestions(S) ==
  IF S = {} THEN <<>>
  ELSE LET first == CHOOSE a \in S : \A b \in S \ {a} : Before(a, b)
       IN <<first>> \o OrderQuestions(S \ {first})

\* UnansweredIn without WHERE a.id IS NULL: the questions that have an answer
\* are listed as well
UnansweredInUnfiltered(rows, s) == OrderQuestions(QuestionIds)

\* the LEFT JOIN ... WHERE a.id IS NULL of getUnansweredQuestions
UnansweredIn(rows, s) ==
  OrderQuestions({q \in QuestionIds : RowsOf(rows, s, q) = EmptyBag})

getUnansweredQuestions(s) == UnansweredIn(answers, s)

\* SELECT COUNT(*) FROM questions
getTotalQuestions == NumQuestions

\* updateProgress with an UPDATE that has no WHERE clause: every row of the
\* table takes the percentage
updateProgressEveryRow(rows, s, percentage) ==
  IF hasProgressColumn
  THEN [t \in DOMAIN rows |->
          IF rows[t].analysis_status # "absent"
          THEN [rows[t] EXCEPT !.progress_data = percentage]
          ELSE rows[t]]
  ELSE rows

\* UPDATE analysis_sessions SET progress_data = ? WHERE id = ?, inside a
\* try/catch that only logs: without the column the statement fails and the
\* row stays as it is.
updateProgress(rows, s, percentage) ==
  IF hasProgressColumn
  THEN [rows EXCEPT ![s].progress_data = percentage]
  ELSE rows

\* ------------------------------------------------------------ POST /start
\* uuidv4() and the INSERT of the row in status processing
PostStartInsert(s) ==
  /\ run[s].pc = "none"
  /\ \A t \in SessionIds : t < s => run[t].pc # "none"
  /\ sessions' = [sessions EXCEPT ![s] =
                    [NoSession EXCEPT !.analysis_status = "processing"]]
  /\ run' = [run EXCEPT ![s].pc = "inserted"]
  /\ UNCHANGED <<hasProgressColumn, answers, calls, startResponse, reportCalls>>

\* startReview(sessionId) is called without await and res.json answers at once
PostStartRespond(s) ==
  /\ run[s].pc = "inserted"
  /\ run' = [run EXCEPT ![s].pc = "progress1"]
  /\ startResponse' = [startResponse EXCEPT ![s] = "processing"]
  /\ UNCHANGED <<hasProgressColumn, sessions, answers, calls, reportCalls>>

\* ------------------------------------------------- startReview, detached
RunPcAfterProgress(pc) ==
  CASE pc = "progress1" -> "progress2"
    [] pc = "progress2" -> "aws"
    [] pc = "progress3" -> "ai"
    [] pc = "progress4" -> "store"
    [] pc = "progress5" -> "unanswered"
    [] pc = "progress6" -> "final"

RunPercentage(pc) ==
  CASE pc = "progress1" -> 10
    [] pc = "progress2" -> 30
    [] pc = "progress3" -> 60
    [] pc = "progress4" -> 80
    [] pc = "progress5" -> 90
    [] pc = "progress6" -> 100

ProgressPcs == {"progress1", "progress2", "progress3", "progress4", "progress5", "progress6"}

\* one of the six awaited updateProgress calls
RunProgress(s) ==
  /\ run[s].pc \in ProgressPcs
  /\ sessions' = updateProgress(sessions, s, RunPercentage(run[s].pc))
  /\ run' = [run EXCEPT ![s].pc = RunPcAfterProgress(run[s].pc)]
  /\ UNCHANGED <<hasProgressColumn, answers, calls, startResponse, reportCalls>>

\* RunAwsReturn with the test of awsAnalysis.success left out: a failed
\* collection is passed on to the next step
RunAwsReturnLenient(s) ==
  /\ run[s].pc = "aws"
  /\ \E outcome \in {"ok", "fail", "hang"} :
       run' = [run EXCEPT ![s].pc = IF outcome = "hang" THEN "hung" ELSE "progress3",
                          ![s].awsAnalysis =
                            CASE outcome = "ok" -> [success |-> TRUE, data |-> "collected"]
                              [] outcome = "fail" -> [success |-> FALSE, data |-> "null"]
                              [] outcome = "hang" -> @]
  /\ UNCHANGED <<hasProgressColumn, sessions, answers, calls, startResponse, reportCalls>>

\* await performComprehensiveAnalysis(), seen from startReview: it returns
\* {success: true, data}, or {success: false, data: null} (what its catch
\* turns any error into; startReview then throws), or it never settles
\* (nothing bounds the wait)
RunAwsReturn(s) ==
  /\ run[s].pc = "aws"
  /\ \E outcome \in {"ok", "fail", "hang"} :
       run' = [run EXCEPT ![s].pc =
                            CASE outcome = "ok" -> "progress3"
                              [] outcome = "fail" -> "catch"
                              [] outcome = "hang" -> "hung",
                          ![s].awsAnalysis =
                            CASE outcome = "ok" -> [success |-> TRUE, data |-> "collected"]
                              [] outcome = "fail" -> [success |-> FALSE, data |-> "null"]
                              [] outcome = "hang" -> @]
  /\ UNCHANGED <<hasProgressColumn, sessions, answers, calls, startResponse, reportCalls>>

\* await analyzeAWSDataForWellArchitected(): analyzeText throws and the error
\* is rethrown, or the parsed object (the fallback object when the text does
\* not parse) is returned, or the engine never answers
RunAiReturn(s) ==
  /\ run[s].pc = "ai"
  /\ \/ \E outcome \in {"throw", "hang"} :
          run' = [run EXCEPT ![s].pc = IF outcome = "throw" THEN "catch" ELSE "hung"]
     \/ \E response \in AutoResponses :
          run' = [run EXCEPT ![s].pc = "progress4", ![s].response = response,
                             ![s].agentAnalysis = ParseAutoAnswers(response)]
  /\ UNCHANGED <<hasProgressColumn, sessions, answers, calls, startResponse, reportCalls>>

\* storeInitialAnalysis, first statement: INSERT OR REPLACE INTO
\* analysis_sessions (id, analysis_status, bedrock_analysis, progress_data,
\* created_at).  Without the column the statement is rejected and the run
\* throws; with it the row of this id is replaced, which clears every
\* column the statement does not name.
RunStoreSession(s) ==
  /\ run[s].pc = "store"
  /\ IF hasProgressColumn
     THEN /\ sessions' = [sessions EXCEPT ![s] =
                            [analysis_status |-> "in_progress", bedrock_analysis |-> "initial",
                             recommendations |-> "null", progress_data |-> 0]]
          /\ run' = [run EXCEPT ![s].pc = "auto", ![s].idx = 1]
     ELSE /\ run' = [run EXCEPT ![s].pc = "catch"]
          /\ UNCHANGED sessions
  /\ UNCHANGED <<hasProgressColumn, answers, calls, startResponse, reportCalls>>

\* storeInitialAnalysis, the loop over agentAnalysis.autoAnswers: one entry
\* per step, or the end of the loop
RunStoreAutoAnswer(s) ==
  /\ run[s].pc = "auto"
  /\ IF run[s].idx > Len(run[s].agentAnalysis)
     THEN /\ run' = [run EXCEPT ![s].pc = "progress5", ![s].idx = 0]
          /\ UNCHANGED answers
     ELSE LET entry == run[s].agentAnalysis[run[s].idx]
              q == QuestionByKey(entry.questionKey)
          IN /\ answers' = IF q # 0
                           THEN InsertOrReplaceAnswer(answers, q, s, entry.answer,
                                                      entry.confidence, "agent")
                           ELSE answers
             /\ run' = [run EXCEPT ![s].idx = @ + 1]
  /\ UNCHANGED <<hasProgressColumn, sessions, calls, startResponse, reportCalls>>

\* const unansweredQuestions = await this.getUnansweredQuestions(sessionId)
RunGetUnanswered(s) ==
  /\ run[s].pc = "unanswered"
  /\ run' = [run EXCEPT ![s].pc = "progress6",
                        ![s].unanswered = Len(getUnansweredQuestions(s))]
  /\ UNCHANGED <<hasProgressColumn, sessions, answers, calls, startResponse, reportCalls>>

\* UPDATE analysis_sessions SET analysis_status = 'completed',
\* bedrock_analysis = ... WHERE id = ? at the end of startReview
RunFinalUpdate(s) ==
  /\ run[s].pc = "final"
  /\ sessions' = [sessions EXCEPT ![s].analysis_status = "completed",
                                  ![s].bedrock_analysis = "summary"]
  /\ run' = [run EXCEPT ![s].pc = "done"]
  /\ UNCHANGED <<hasProgressColumn, answers, calls, startResponse, reportCalls>>

\* RunCatch with the failure also sent to the client of POST /start, as it
\* would be if the route awaited startReview
RunCatchRaising(s) ==
  /\ run[s].pc = "catch"
  /\ sessions' = [sessions EXCEPT ![s].analysis_status = "failed"]
  /\ run' = [run EXCEPT ![s].pc = "failed"]
  /\ startResponse' = [startResponse EXCEPT ![s] = "error"]
  /\ UNCHANGED <<hasProgressColumn, answers, calls, reportCalls>>

\* the .catch of POST /start: UPDATE analysis_sessions SET analysis_status =
\* 'failed' WHERE id = ?
RunCatch(s) ==
  /\ run[s].pc = "catch"
  /\ sessions' = [sessions EXCEPT ![s].analysis_status = "failed"]
  /\ run' = [run EXCEPT ![s].pc = "failed"]
  /\ UNCHANGED <<hasProgressColumn, answers, calls, startResponse, reportCalls>>

RunStep(s) ==
  \/ RunProgress(s)
  \/ RunAwsReturn(s)
  \/ RunAiReturn(s)
  \/ RunStoreSession(s)
  \/ RunStoreAutoAnswer(s)
  \/ RunGetUnanswered(s)
  \/ RunFinalUpdate(s)
  \/ RunCatch(s)

\* ------------------------------- performComprehensiveAnalysis, step by step
\* what the promise of analysis k yields to the join: the value it fulfilled
\* with, or the stand-in of routes/index.js:1287-1292 when it rejected.  The
\* data of a successful analysis is named after the analysis.
ServiceResult(k, outcome) ==
  CASE outcome = "ok" ->
         [success |-> TRUE, data |-> k, errorType |-> "none", message |-> "none"]
    [] outcome = "failed" ->
         [success |-> FALSE, data |-> "null",
          errorType |-> IF k = "trustedAdvisor" THEN "GENERAL_ERROR" ELSE "none",
          message |-> IF k = "trustedAdvisor" THEN "userMessage" ELSE "error.message"]
    [] outcome = "subscription" ->
         [success |-> FALSE, data |-> "unavailable",
          errorType |-> "SUBSCRIPTION_REQUIRED", message |-> "userMessage"]
    [] outcome = "rejected" ->
         [success |-> FALSE, data |-> "null", errorType |-> "none",
          message |-> "Analysis failed"]

\* ServiceEntries with the errors list taking every failed analysis, whatever
\* its errorType
ServiceEntriesAllErrors(serviceResults, isWarning) ==
  LET Listed(k) == /\ ~serviceResults[k].success
                   /\ isWarning => serviceResults[k].errorType = "SUBSCRIPTION_REQUIRED"
      Entry(k) == [service |-> k, message |-> serviceResults[k].message,
                   type |-> IF isWarning THEN "warning" ELSE "error"]
      names == SelectSeq(CollectorOrder, Listed)
  IN [i \in DOMAIN names |-> Entry(names[i])]

\* the entries pushed by the forEach over Object.entries(serviceResults), in
\* the order of the keys: the failed analyses whose errorType is (isWarning)
\* or is not SUBSCRIPTION_REQUIRED
ServiceEntries(serviceResults, isWarning) ==
  LET Listed(k) == /\ ~serviceResults[k].success
                   /\ (serviceResults[k].errorType = "SUBSCRIPTION_REQUIRED") = isWarning
      Entry(k) == [service |-> k, message |-> serviceResults[k].message,
                   type |-> IF isWarning THEN "warning" ELSE "error"]
      names == SelectSeq(CollectorOrder, Listed)
  IN [i \in DOMAIN names |-> Entry(names[i])]

\* the object performComprehensiveAnalysis returns once every promise has
\* settled (generateComprehensiveSummary reads the data through ?. and adds
\* nothing the review uses)
performComprehensiveAnalysis(outcomes) ==
  LET serviceResults == [k \in Collectors |-> ServiceResult(k, outcomes[k])]
  IN [success |-> TRUE,
      data |-> [snapshot |-> [k \in Collectors |-> serviceResults[k].data],
                serviceStatus |->
                  [errors |-> ServiceEntries(serviceResults, FALSE),
                   warnings |-> ServiceEntries(serviceResults, TRUE),
                   successfulServices |->
                     Cardinality({k \in Collectors : serviceResults[k].success}),
                   totalServices |-> Cardinality(Collectors)]]]

\* Promise.allSettled([...]): the six analyses are called, each runs to its
\* first await
CollectStart(s) ==
  /\ run[s].pc = "aws"
  /\ run' = [run EXCEPT ![s].pc = "collecting",
                        ![s].collectors = [k \in Collectors |-> "pending"]]
  /\ UNCHANGED <<hasProgressColumn, sessions, answers, calls, startResponse, reportCalls>>

\* the promise of one analysis settles
CollectSettle(s, k) ==
  /\ run[s].pc = "collecting"
  /\ run[s].collectors[k] = "pending"
  /\ \E outcome \in SettledOutcomes(k) :
       run' = [run EXCEPT ![s].collectors[k] = outcome]
  /\ UNCHANGED <<hasProgressColumn, sessions, answers, calls, startResponse, reportCalls>>

\* CollectJoin as Promise.all would have it: the first rejection ends the
\* wait and control passes to the catch, which returns {success: false}
CollectJoinShortCircuit(s) ==
  /\ run[s].pc = "collecting"
  /\ \/ /\ \E k \in Collectors : run[s].collectors[k] = "rejected"
        /\ run' = [run EXCEPT ![s].pc = "catch",
                              ![s].awsAnalysis = [success |-> FALSE, data |-> "null"]]
     \/ /\ \A k \in Collectors : run[s].collectors[k] \notin {"pending", "rejected"}
        /\ run' = [run EXCEPT ![s].pc = "progress3",
                              ![s].awsAnalysis = performComprehensiveAnalysis(run[s].collectors)]
  /\ UNCHANGED <<hasProgressColumn, sessions, answers, calls, startResponse, reportCalls>>

\* the await of Promise.allSettled resumes once all six promises have
\* settled; the object is built and returned, and startReview throws when
\* its success is false
CollectJoin(s) ==
  /\ run[s].pc = "collecting"
  /\ \A k \in Collectors : run[s].collectors[k] # "pending"
  /\ LET awsAnalysis == performComprehensiveAnalysis(run[s].collectors)
     IN run' = [run EXCEPT ![s].awsAnalysis = awsAnalysis,
                           ![s].pc = IF awsAnalysis.success THEN "progress3" ELSE "catch"]
  /\ UNCHANGED <<hasProgressColumn, sessions, answers, calls, startResponse, reportCalls>>

\* startReview with the collection taken step by step
CollectRunStep(s) ==
  \/ RunProgress(s)
  \/ CollectStart(s)
  \/ \E k \in Collectors : CollectSettle(s, k)
  \/ CollectJoin(s)
  \/ RunAiReturn(s)
  \/ RunStoreSession(s)
  \/ RunStoreAutoAnswer(s)
  \/ RunGetUnanswered(s)
  \/ RunFinalUpdate(s)
  \/ RunCatch(s)

\* ----------------------------------- POST /:sessionId/answer, the request
Finished(call, outcome, isComplete, count, nextQuestion) ==
  [call EXCEPT !.pc = "finished", !.sessionId = UnknownSession, !.questionKey = BadKey,
               !.userAnswer = EmptyText, !.response = NoResponse,
               !.additionalAnswers = <<>>, !.idx = 0,
               !.unanswered = <<>>, !.report = "null",
               !.result = [NoResult EXCEPT !.outcome = outcome, !.isComplete = isComplete,
                                           !.additionalAnswersCount = count,
                                           !.nextQuestion = nextQuestion]]

\* the catch of the route: status 500 with error.message
Threw(call, error) ==
  [Finished(call, "error", FALSE, 0, 0) EXCEPT !.result.error = error]

\* the 400 of the route
Rejected(call) ==
  [Finished(call, "invalid", FALSE, 0, 0)
     EXCEPT !.result.error = "Question key and answer are required"]

\* the value submitUserAnswer returns: additionalAnswersCount is the length
\* of the engine's list, nextQuestion the head of the unanswered list
Returned(call, unanswered) ==
  Finished(call, "ok", unanswered = <<>>, Len(call.additionalAnswers),
           IF unanswered = <<>> THEN 0 ELSE Head(unanswered))

\* SubmitRequest without the test of the question row: the engine is asked
\* about any key
SubmitRequestUnchecked(c) ==
  /\ calls[c].pc = "idle"
  /\ \A d \in CallIds : d < c => calls[d].pc # "idle"
  /\ \E s \in AllSessionIds \cup {OtherSession}, key \in QuestionKeys,
        text \in {UserText(c), EmptyText} :
       /\ s \in SessionIds => startResponse[s] = "processing"
       /\ s = OtherSession => SessionExists(OtherSession)
       /\ LET call == [calls[c] EXCEPT !.sessionId = s, !.questionKey = key,
                                       !.userAnswer = text]
          IN calls' = [calls EXCEPT ![c] =
                         IF text = EmptyText THEN Rejected(call)
                         ELSE [call EXCEPT !.pc = "analyze"]]
  /\ UNCHANGED <<hasProgressColumn, sessions, answers, run, startResponse, reportCalls>>

\* The route rejects a missing answer with 400; submitUserAnswer looks the
\* question up and throws when there is none, else it calls analyzeUserAnswer.
\* A client knows a session id only from the response of POST /start (the
\* id of OtherSession from the response of the earlier process); any other
\* id it sends is UnknownSession.
SubmitRequest(c) ==
  /\ calls[c].pc = "idle"
  /\ \A d \in CallIds : d < c => calls[d].pc # "idle"
  /\ \E s \in AllSessionIds \cup {OtherSession}, key \in QuestionKeys,
        text \in {UserText(c), EmptyText} :
       /\ s \in SessionIds => startResponse[s] = "processing"
       /\ s = OtherSession => SessionExists(OtherSession)
       /\ LET call == [calls[c] EXCEPT !.sessionId = s, !.questionKey = key,
                                       !.userAnswer = text]
          IN calls' = [calls EXCEPT ![c] =
                         IF text = EmptyText THEN Rejected(call)
                         ELSE IF QuestionByKey(key) = 0 THEN Threw(call, "Question not found")
                         ELSE [call EXCEPT !.pc = "analyze"]]
  /\ UNCHANGED <<hasProgressColumn, sessions, answers, run, startResponse, reportCalls>>

\* SubmitAnalyzeReturn with a parse that is not caught: a text that does not
\* parse ends the request with an error
SubmitAnalyzeReturnStrict(c) ==
  /\ calls[c].pc = "analyze"
  /\ \/ calls' = [calls EXCEPT ![c] = Threw(calls[c], "engine")]
     \/ calls' = [calls EXCEPT ![c].pc = "hung"]
     \/ \E response \in DerivationResponses :
          calls' = [calls EXCEPT ![c] =
                      IF response.parsable
                      THEN [calls[c] EXCEPT !.pc = "primary", !.response = response,
                                            !.additionalAnswers = response.additionalAnswers]
                      ELSE Threw(calls[c], "SyntaxError")]
  /\ UNCHANGED <<hasProgressColumn, sessions, answers, run, startResponse, reportCalls>>

\* await analyzeUserAnswer(): analyzeText throws and the error is rethrown,
\* or the parsed object (the fallback object, with no additional answers,
\* when the text does not parse) is returned, or the engine never answers
SubmitAnalyzeReturn(c) ==
  /\ calls[c].pc = "analyze"
  /\ \/ calls' = [calls EXCEPT ![c] = Threw(calls[c], "engine")]
     \/ calls' = [calls EXCEPT ![c].pc = "hung"]
     \/ \E response \in DerivationResponses :
          calls' = [calls EXCEPT ![c].pc = "primary",
                                 ![c].response = response,
                                 ![c].additionalAnswers = ParseAdditionalAnswers(response)]
  /\ UNCHANGED <<hasProgressColumn, sessions, answers, run, startResponse, reportCalls>>

\* "Store the primary answer"
SubmitStorePrimary(c) ==
  /\ calls[c].pc = "primary"
  /\ answers' = InsertOrReplaceAnswer(answers, QuestionByKey(calls[c].questionKey),
                                      calls[c].sessionId, calls[c].userAnswer,
                                      UserConfidence, "user")
  /\ calls' = [calls EXCEPT ![c].pc = "derived", ![c].idx = 1]
  /\ UNCHANGED <<hasProgressColumn, sessions, run, startResponse, reportCalls>>

\* "Store any additional answers the agent derived": one entry per step, or
\* the end of the loop
SubmitStoreDerived(c) ==
  /\ calls[c].pc = "derived"
  /\ IF calls[c].idx > Len(calls[c].additionalAnswers)
     THEN /\ calls' = [calls EXCEPT ![c].pc = "unanswered", ![c].idx = 0]
          /\ UNCHANGED answers
     ELSE LET entry == calls[c].additionalAnswers[calls[c].idx]
              q == QuestionByKey(entry.questionKey)
          IN /\ answers' = IF q # 0
                           THEN InsertOrReplaceAnswer(answers, q, calls[c].sessionId,
                                                      entry.answer, entry.confidence,
                                                      "agent_derived")
                           ELSE answers
             /\ calls' = [calls EXCEPT ![c].idx = @ + 1]
  /\ UNCHANGED <<hasProgressColumn, sessions, run, startResponse, reportCalls>>

\* "Get next unanswered question"; with none left generateFinalReport is
\* entered, else the result is returned
SubmitGetUnanswered(c) ==
  /\ calls[c].pc = "unanswered"
  /\ LET unanswered == getUnansweredQuestions(calls[c].sessionId)
     IN IF unanswered = <<>>
        THEN /\ calls' = [calls EXCEPT ![c].pc = "report_read"]
             /\ reportCalls' = [reportCalls EXCEPT ![calls[c].sessionId] = @ + 1]
        ELSE /\ calls' = [calls EXCEPT ![c] = Returned(calls[c], unanswered)]
             /\ UNCHANGED reportCalls
  /\ UNCHANGED <<hasProgressColumn, sessions, answers, run, startResponse>>

\* generateFinalReport reads the answers and the session row; without a row
\* session.bedrock_analysis throws and the request fails
SubmitReportRead(c) ==
  /\ calls[c].pc = "report_read"
  /\ calls' = [calls EXCEPT ![c] =
                 IF SessionExists(calls[c].sessionId)
                 THEN [calls[c] EXCEPT !.pc = "report_engine"]
                 ELSE Threw(calls[c], "TypeError")]
  /\ UNCHANGED <<hasProgressColumn, sessions, answers, run, startResponse, reportCalls>>

\* SubmitReportEngineReturn with a parse that is not caught: a text that does
\* not parse ends the request with an error
SubmitReportEngineReturnStrict(c) ==
  /\ calls[c].pc = "report_engine"
  /\ \/ calls' = [calls EXCEPT ![c] = Threw(calls[c], "engine")]
     \/ calls' = [calls EXCEPT ![c].pc = "hung"]
     \/ calls' = [calls EXCEPT ![c] = Threw(calls[c], "SyntaxError")]
     \/ calls' = [calls EXCEPT ![c].pc = "report_update", ![c].report = "parsed"]
  /\ UNCHANGED <<hasProgressColumn, sessions, answers, run, startResponse, reportCalls>>

\* await generateWellArchitectedReport(): analyzeText throws and the error
\* is rethrown, or the parsed report or the fallback report is returned, or
\* the engine never answers
SubmitReportEngineReturn(c) ==
  /\ calls[c].pc = "report_engine"
  /\ \/ calls' = [calls EXCEPT ![c] = Threw(calls[c], "engine")]
     \/ calls' = [calls EXCEPT ![c].pc = "hung"]
     \/ \E report \in {"parsed", "fallback"} :
          calls' = [calls EXCEPT ![c].pc = "report_update", ![c].report = report]
  /\ UNCHANGED <<hasProgressColumn, sessions, answers, run, startResponse, reportCalls>>

\* UPDATE analysis_sessions SET analysis_status = 'completed',
\* recommendations = ? WHERE id = ?, then the result is returned
SubmitReportUpdate(c) ==
  /\ calls[c].pc = "report_update"
  /\ sessions' = [sessions EXCEPT ![calls[c].sessionId].analysis_status = "completed",
                                  ![calls[c].sessionId].recommendations = calls[c].report]
  /\ calls' = [calls EXCEPT ![c] = Returned(calls[c], <<>>)]
  /\ UNCHANGED <<hasProgressColumn, answers, run, startResponse, reportCalls>>

\* the steps of a request that is under way
SubmitContinue(c) ==
  \/ SubmitAnalyzeReturn(c)
  \/ SubmitStorePrimary(c)
  \/ SubmitStoreDerived(c)
  \/ SubmitGetUnanswered(c)
  \/ SubmitReportRead(c)
  \/ SubmitReportEngineReturn(c)
  \/ SubmitReportUpdate(c)

SubmitStep(c) ==
  \/ SubmitRequest(c)
  \/ SubmitContinue(c)

\* ------------------------------------------------------ the specification
Next ==
  \/ \E s \in SessionIds : PostStartInsert(s)
  \/ \E s \in SessionIds : PostStartRespond(s)
  \/ \E s \in SessionIds : RunStep(s)
  \/ \E c \in CallIds : SubmitStep(c)

Spec == Init /\ [][Next]_vars

\* The program with a single answer request, under the scheduling of the
\* event loop: a continuation that is ready to run does run.  Whether a
\* client sends a request is up to the client.
FirstCall == CHOOSE c \in CallIds : \A d \in CallIds : c <= d

FairNext ==
  \/ \E s \in SessionIds : PostStartInsert(s)
  \/ \E s \in SessionIds : PostStartRespond(s)
  \/ \E s \in SessionIds : RunStep(s)
  \/ SubmitStep(FirstCall)

FairSpec ==
  /\ Init
  /\ [][FairNext]_vars
  /\ \A s \in SessionIds : WF_vars(PostStartRespond(s)) /\ WF_vars(RunStep(s))
  /\ WF_vars(SubmitContinue(FirstCall))

\* One review, started and run with no answer request, the collection taken
\* step by step.
FirstSession == CHOOSE s \in SessionIds : \A t \in SessionIds : s <= t

CollectNext ==
  \/ PostStartInsert(FirstSession)
  \/ PostStartRespond(FirstSession)
  \/ CollectRunStep(FirstSession)

CollectSpec == Init /\ [][CollectNext]_vars

\* ---------------------------------------------------------- GET .../status
\* Math.round((answered / total) * 100)
RoundPercent(answered, total) == (200 * answered + total) \div (2 * total)

\* SELECT COUNT(*) FROM answers a JOIN questions q ... WHERE a.session_id = ?
AnsweredCount(s) ==
  BagCardinality([r \in {x \in BagToSet(answers) : x.session_id = s} |-> answers[r]])

\* the descriptor getReviewStatus returns, or NotFound when it throws
NotFound == [error |-> "Session not found"]

getReviewStatus(s) ==
  IF ~SessionExists(s) THEN NotFound
  ELSE LET unanswered == getUnansweredQuestions(s)
       IN [sessionId |-> s,
           status |-> sessions[s].analysis_status,
           totalQuestions |-> getTotalQuestions,
           answeredQuestions |-> AnsweredCount(s),
           remainingQuestions |-> Len(unanswered),
           nextQuestion |-> IF unanswered = <<>> THEN 0 ELSE Head(unanswered),
           isComplete |-> sessions[s].analysis_status = "completed",
           progress |-> RoundPercent(AnsweredCount(s), getTotalQuestions)]

\* ------------------------------------- GET .../status and GET .../report
\* the requests that poll; the first request slot is kept for an answer
PollCalls == CallIds \ {FirstCall}

\* the request has returned: its locals are gone, the response stays
Answered(result) == [IdleCall EXCEPT !.pc = "finished", !.result = result]

\* GetStatusSession without the test of the row: a descriptor is built for
\* any id
GetStatusSessionUnchecked(c) ==
  /\ calls[c].pc = "idle"
  /\ \A d \in PollCalls : d < c => calls[d].pc # "idle"
  /\ \E s \in AllSessionIds :
       /\ s \in SessionIds => startResponse[s] = "processing"
       /\ calls' = [calls EXCEPT ![c].sessionId = s, ![c].pc = "status_count",
                                 ![c].result.status =
                                   IF SessionExists(s) THEN sessions[s].analysis_status
                                   ELSE "absent"]
  /\ UNCHANGED <<hasProgressColumn, sessions, answers, run, startResponse, reportCalls>>

\* getReviewStatus: SELECT * FROM analysis_sessions WHERE id = ?, and the
\* throw when there is no row
GetStatusSession(c) ==
  /\ calls[c].pc = "idle"
  /\ \A d \in PollCalls : d < c => calls[d].pc # "idle"
  /\ \E s \in AllSessionIds :
       /\ s \in SessionIds => startResponse[s] = "processing"
       /\ calls' = [calls EXCEPT ![c] =
                      IF SessionExists(s)
                      THEN [calls[c] EXCEPT !.sessionId = s, !.pc = "status_count",
                                            !.result.status = sessions[s].analysis_status]
                      ELSE Threw(calls[c], "Session not found")]
  /\ UNCHANGED <<hasProgressColumn, sessions, answers, run, startResponse, reportCalls>>

\* getReviewStatus: getTotalQuestions and the COUNT(*) of the session's answers
GetStatusCount(c) ==
  /\ calls[c].pc = "status_count"
  /\ calls' = [calls EXCEPT ![c].pc = "status_unanswered",
                            ![c].result.answeredQuestions = AnsweredCount(calls[c].sessionId)]
  /\ UNCHANGED <<hasProgressColumn, sessions, answers, run, startResponse, reportCalls>>

\* getReviewStatus: getUnansweredQuestions and the descriptor that is returned
GetStatusUnanswered(c) ==
  /\ calls[c].pc = "status_unanswered"
  /\ LET unanswered == getUnansweredQuestions(calls[c].sessionId)
         result == calls[c].result
     IN calls' = [calls EXCEPT ![c] =
                    Answered([result EXCEPT
                                !.outcome = "ok",
                                !.remainingQuestions = Len(unanswered),
                                !.nextQuestion = IF unanswered = <<>> THEN 0 ELSE Head(unanswered),
                                !.isComplete = (result.status = "completed"),
                                !.progress = RoundPercent(result.answeredQuestions,
                                                          getTotalQuestions)])]
  /\ UNCHANGED <<hasProgressColumn, sessions, answers, run, startResponse, reportCalls>>

\* JSON.parse(session.recommendations || '{}')
ParseRecommendations(recommendations) ==
  IF recommendations = "null" THEN "{}" ELSE recommendations

\* GetReportSession with the WHERE clause reduced to the id
GetReportSessionAnyStatus(c) ==
  /\ calls[c].pc = "idle"
  /\ \A d \in PollCalls : d < c => calls[d].pc # "idle"
  /\ \E s \in AllSessionIds :
       /\ s \in SessionIds => startResponse[s] = "processing"
       /\ calls' = [calls EXCEPT ![c] =
                      IF SessionExists(s)
                      THEN [calls[c] EXCEPT !.sessionId = s, !.pc = "report_answers",
                                            !.result.report =
                                              ParseRecommendations(sessions[s].recommendations)]
                      ELSE Threw(calls[c], "Completed session not found")]
  /\ UNCHANGED <<hasProgressColumn, sessions, answers, run, startResponse, reportCalls>>

\* getFinalReport: SELECT recommendations, bedrock_analysis FROM
\* analysis_sessions WHERE id = ? AND analysis_status = "completed" (SQLite
\* reads the quoted word, which names no column, as the string), and the
\* throw when there is no such row
GetReportSession(c) ==
  /\ calls[c].pc = "idle"
  /\ \A d \in PollCalls : d < c => calls[d].pc # "idle"
  /\ \E s \in AllSessionIds :
       /\ s \in SessionIds => startResponse[s] = "processing"
       /\ calls' = [calls EXCEPT ![c] =
                      IF SessionExists(s) /\ sessions[s].analysis_status = "completed"
                      THEN [calls[c] EXCEPT !.sessionId = s, !.pc = "report_answers",
                                            !.result.report =
                                              ParseRecommendations(sessions[s].recommendations)]
                      ELSE Threw(calls[c], "Completed session not found")]
  /\ UNCHANGED <<hasProgressColumn, sessions, answers, run, startResponse, reportCalls>>

\* getFinalReport: the SELECT of the session's answers and the return
GetReportAnswers(c) ==
  /\ calls[c].pc = "report_answers"
  /\ calls' = [calls EXCEPT ![c] = Answered([calls[c].result EXCEPT !.outcome = "ok"])]
  /\ UNCHANGED <<hasProgressColumn, sessions, answers, run, startResponse, reportCalls>>

PollStep(c) ==
  \/ GetStatusSession(c)
  \/ GetStatusCount(c)
  \/ GetStatusUnanswered(c)
  \/ GetReportSession(c)
  \/ GetReportAnswers(c)

\* The program with one answer request and the other requests polling.
PollNext ==
  \/ \E s \in SessionIds : PostStartInsert(s)
  \/ \E s \in SessionIds : PostStartRespond(s)
  \/ \E s \in SessionIds : RunStep(s)
  \/ SubmitStep(FirstCall)
  \/ \E c \in PollCalls : PollStep(c)

PollSpec == Init /\ [][PollNext]_vars

\* The program with no answer request: one review is started and run while
\* the clients poll.
WatchNext ==
  \/ \E s \in SessionIds : PostStartInsert(s)
  \/ \E s \in SessionIds : PostStartRespond(s)
  \/ \E s \in SessionIds : RunStep(s)
  \/ \E c \in CallIds : PollStep(c)

WatchSpec == Init /\ [][WatchNext]_vars

\* ------------------------------------------- a database with an earlier session
\* The row and the answers an earlier process left for OtherSession.  With the
\* progress_data column its run came to its end after one auto-answer; without
\* the column its run failed in storeInitialAnalysis and a client answered one
\* question.  In both the second question is still open.
EarlierRow ==
  IF hasProgressColumn
  THEN [analysis_status |-> "completed", bedrock_analysis |-> "summary",
        recommendations |-> "null", progress_data |-> RunPercentage("progress6")]
  ELSE [NoSession EXCEPT !.analysis_status = "failed"]

FirstQuestion == Head(OrderQuestions(QuestionIds))

EarlierAnswers ==
  IF hasProgressColumn
  THEN InsertOrReplaceAnswer(EmptyBag, FirstQuestion, OtherSession, AutoText,
                             AutoConfidence, "agent")
  ELSE InsertOrReplaceAnswer(EmptyBag, FirstQuestion, OtherSession, UserText(0),
                             UserConfidence, "user")

IsolationInit ==
  /\ hasProgressColumn \in BOOLEAN
  /\ sessions = [s \in TableIds |-> IF s = OtherSession THEN EarlierRow ELSE NoSession]
  /\ answers = EarlierAnswers
  /\ run = [s \in SessionIds |-> IdleRun]
  /\ calls = [c \in CallIds |-> IdleCall]
  /\ startResponse = [s \in SessionIds |-> "none"]
  /\ reportCalls = [s \in AllSessionIds \cup {OtherSession} |-> 0]

\* A new session is started and run, and one answer request is sent, on a
\* database that holds the earlier session.
IsolationNext ==
  \/ \E s \in SessionIds : PostStartInsert(s)
  \/ \E s \in SessionIds : PostStartRespond(s)
  \/ \E s \in SessionIds : RunStep(s)
  \/ SubmitStep(FirstCall)

IsolationSpec == IsolationInit /\ [][IsolationNext]_vars

\* ------------------------------------------------------------- the claims
RowCount(s, q) == BagCardinality(RowsOf(answers, s, q))

\* C1: when the background run finishes its last step and a question of the
\* session is still unanswered, the status that step leaves is in_progress.
C1_ReadyLeavesInProgress ==
  [][\A s \in SessionIds :
       (run[s].pc = "final" /\ run'[s].pc = "done" /\ getUnansweredQuestions(s) # <<>>)
         => sessions'[s].analysis_status = "in_progress"]_vars

\* no run and no request is between two of its steps
Quiescent ==
  /\ \A s \in SessionIds : run[s].pc \in {"none", "done", "failed"}
  /\ \A c \in CallIds : calls[c].pc \in {"idle", "finished"}

\* C2: for every session, getReviewStatus reports isComplete exactly when
\* every question has exactly one answer row of that session (stated of the
\* states in which no operation is under way).
C2_CompleteIffCovered ==
  \A s \in SessionIds :
    (SessionExists(s) /\ Quiescent) =>
      (getReviewStatus(s).isComplete <=> \A q \in QuestionIds : RowCount(s, q) = 1)

\* C3: the derived-answer step of submitUserAnswer on a session leaves the
\* rows of every question that already has an answer in that session as
\* they are.
C3_DerivedNeverClobbers ==
  [][\A c \in CallIds : \A q \in QuestionIds :
       (calls[c].pc = "derived" /\ calls'[c] # calls[c]
          /\ SessionExists(calls[c].sessionId)
          /\ RowsOf(answers, calls[c].sessionId, q) # EmptyBag)
         => RowsOf(answers', calls[c].sessionId, q) = RowsOf(answers, calls[c].sessionId, q)]_vars

\* C4: there is never more than one answer row for a (session, question) pair.
C4_OneRowPerPair ==
  \A s \in SessionIds : \A q \in QuestionIds : RowCount(s, q) <= 1

\* C5: generateFinalReport is entered at most once for a session.
C5_ReportAtMostOnce ==
  \A s \in SessionIds : reportCalls[s] <= 1

\* C6: a session whose background run has succeeded becomes completed only
\* from in_progress, by the report update of a submission, with every
\* question answered and after exactly one call of generateFinalReport.
C6_CompletedOnLastAnswer ==
  [][\A s \in SessionIds :
       (run'[s].pc = "done" /\ sessions[s].analysis_status # "completed"
          /\ sessions'[s].analysis_status = "completed")
         => /\ sessions[s].analysis_status = "in_progress"
            /\ \E c \in CallIds : calls[c].pc = "report_update" /\ calls[c].sessionId = s
                                   /\ calls'[c].pc = "finished"
            /\ getUnansweredQuestions(s) = <<>>
            /\ reportCalls'[s] = 1]_vars

\* C7: every change of a session's status is processing -> in_progress,
\* processing -> failed or in_progress -> completed (a row is created in
\* processing); completed and failed are never left.
AllowedTransitions ==
  {<<"absent", "processing">>, <<"processing", "in_progress">>,
   <<"processing", "failed">>, <<"in_progress", "completed">>}

C7_StatusMachine ==
  [][\A s \in SessionIds :
       sessions'[s].analysis_status # sessions[s].analysis_status
         => <<sessions[s].analysis_status, sessions'[s].analysis_status>> \in AllowedTransitions]_vars

\* C8: POST /start answers {status: processing} when the row exists in status
\* processing and the run has not begun its first step, and nothing that
\* happens later changes that answer.
C8_StartAnswersAtOnce ==
  [][\A s \in SessionIds :
       /\ (startResponse[s] = "none" /\ startResponse'[s] # "none")
            => /\ startResponse'[s] = "processing"
               /\ sessions'[s].analysis_status = "processing"
               /\ run'[s].pc = "progress1"
       /\ startResponse[s] # "none" => startResponse'[s] = startResponse[s]]_vars

\* a run failed after POST /start had answered
C8_Witness ==
  \E s \in SessionIds :
    startResponse[s] = "processing" /\ run[s].pc = "failed"
      /\ sessions[s].analysis_status = "failed"

\* C9: once the run has failed, getReviewStatus reports status failed together
\* with the recorded error.
C9_FailureIsReported ==
  \A s \in SessionIds :
    run[s].pc = "failed" =>
      /\ getReviewStatus(s).status = "failed"
      /\ "error" \in DOMAIN getReviewStatus(s)

\* C10: every session that is in status processing eventually leaves it.
C10_LeavesProcessing ==
  \A s \in SessionIds :
    (sessions[s].analysis_status = "processing") ~> (sessions[s].analysis_status # "processing")

\* the analyses of a run that did not succeed
FailedCollectors(s) == {k \in Collectors : run[s].collectors[k] \in {"failed", "subscription", "rejected"}}

\* the entries of errors and warnings that name analysis k
EntriesFor(awsAnalysis, k) ==
  LET status == awsAnalysis.data.serviceStatus
  IN Cardinality({i \in DOMAIN status.errors : status.errors[i].service = k})
       + Cardinality({i \in DOMAIN status.warnings : status.warnings[i].service = k})

\* C11: the collection returns only when each of the six analyses has reached
\* its own outcome, whatever subset of them failed or rejected; it then
\* returns success with the data of every successful analysis and one
\* recorded entry for every failed one, and startReview goes on to its next
\* step instead of to the failure handler.
C11_PartialCollectionSucceeds ==
  [][\A s \in SessionIds :
       (run[s].pc = "collecting" /\ run'[s].pc # "collecting")
         => /\ \A k \in Collectors : run[s].collectors[k] \in SettledOutcomes(k)
            /\ run'[s].awsAnalysis.success
            /\ \A k \in Collectors \ FailedCollectors(s) :
                 /\ run'[s].awsAnalysis.data.snapshot[k] = k
                 /\ EntriesFor(run'[s].awsAnalysis, k) = 0
            /\ \A k \in FailedCollectors(s) : EntriesFor(run'[s].awsAnalysis, k) = 1
            /\ run'[s].pc = "progress3"]_vars

\* two of the six analyses failed (one by rejecting), the collection
\* returned success with the other four, and the run went on to the end
C11_Witness ==
  \E s \in SessionIds :
    /\ run[s].pc = "done"
    /\ Cardinality(FailedCollectors(s)) = 2
    /\ \E k \in Collectors : run[s].collectors[k] = "rejected"
    /\ run[s].awsAnalysis.success
    /\ run[s].awsAnalysis.data.serviceStatus.successfulServices = 4
    /\ sessions[s].analysis_status # "failed"

\* the rows the background run of session s has written
AgentRows(rows, s) ==
  {r \in BagToSet(rows) : r.session_id = s /\ r.source = "agent"}

\* the collection of the run of s returned failure and startReview threw
CollectionFailed(runs, s) ==
  runs[s].pc \in {"catch", "failed"} /\ ~runs[s].awsAnalysis.success

\* C12: when the collection call fails, the run goes from there to the
\* failure handler and stops: the handler sets the session to failed, the run
\* takes no step that calls the engine, and no answer of source agent exists
\* or appears for the session.
C12_CollectionFailureStopsRun ==
  [][\A s \in SessionIds :
       /\ (run[s].pc = "aws" /\ run'[s].pc \notin {"aws", "hung"}
              /\ ~run'[s].awsAnalysis.success)
            => run'[s].pc = "catch" /\ answers' = answers /\ sessions' = sessions
       /\ CollectionFailed(run', s)
            => /\ AgentRows(answers', s) = {}
               /\ run'[s].agentAnalysis = <<>>
       /\ CollectionFailed(run, s)
            => /\ CollectionFailed(run', s)
               /\ run'[s].pc # run[s].pc => sessions'[s].analysis_status = "failed"]_vars

\* the collection failed and the handler has marked the session
C12_Witness ==
  \E s \in SessionIds :
    /\ CollectionFailed(run, s)
    /\ run[s].pc = "failed"
    /\ sessions[s].analysis_status = "failed"

\* the pillar and category names of the seeded rows, in alphabetical order
Alphabetical ==
  <<"Cost Optimization", "Operational Excellence", "Organization",
    "Practice Cloud Financial Management", "Region Selection", "Sustainability",
    "User Behavior Patterns">>

NameBefore(a, b) ==
  \E i, j \in DOMAIN Alphabetical : Alphabetical[i] = a /\ Alphabetical[j] = b /\ i < j

\* a comes strictly before b by descending priority, then pillar name, then
\* category
RankedBefore(a, b) ==
  \/ Priority(a) > Priority(b)
  \/ /\ Priority(a) = Priority(b)
     /\ \/ NameBefore(PillarName(a), PillarName(b))
        \/ PillarName(a) = PillarName(b) /\ NameBefore(Category(a), Category(b))

\* C13: for every session, getUnansweredQuestions returns each question that
\* has no answer row of the session exactly once and no other question, and
\* no question of the list comes after one that it precedes by descending
\* priority, then pillar name, then category.
C13_UnansweredRanked ==
  \A s \in SessionIds :
    SessionExists(s) =>
      LET unanswered == getUnansweredQuestions(s)
      IN /\ {unanswered[i] : i \in DOMAIN unanswered}
              = {q \in QuestionIds : RowCount(s, q) = 0}
         /\ Len(unanswered) = Cardinality({q \in QuestionIds : RowCount(s, q) = 0})
         /\ \A i, j \in DOMAIN unanswered :
              i < j => ~RankedBefore(unanswered[j], unanswered[i])

\* C14: a getReviewStatus request for an id that has no session row ends at
\* once with the error "Session not found", and it leaves every session row
\* and every answer row as it was.
C14_StatusOfUnknownSession ==
  [][\A c \in PollCalls :
       /\ (calls[c].pc = "idle" /\ calls'[c].pc = "status_count")
            => SessionExists(calls'[c].sessionId)
       /\ (calls[c].pc = "idle" /\ calls'[c].result.error = "Session not found")
            => /\ calls'[c].pc = "finished"
               /\ calls'[c].result.outcome = "error"
               /\ sessions' = sessions /\ answers' = answers]_vars

\* a status request for an unknown id was refused while a session with an
\* answer row exists
C14_Witness ==
  \E c \in PollCalls :
    /\ calls[c].pc = "finished"
    /\ calls[c].result.error = "Session not found"
    /\ \E s \in SessionIds : SessionExists(s) /\ AnsweredCount(s) > 0

\* C15: an answer request goes on to the engine only with the key of a
\* question row; a request whose key has no row ends at once with the error
\* "Question not found", and that step leaves the answers, the session rows
\* (status and report) and the count of report syntheses as they were.
C15_UnknownKeyRefused ==
  [][\A c \in CallIds :
       /\ (calls[c].pc = "idle" /\ calls'[c].pc = "analyze")
            => QuestionByKey(calls'[c].questionKey) # 0
       /\ (calls[c].pc = "idle" /\ calls'[c].result.error = "Question not found")
            => /\ calls'[c].pc = "finished"
               /\ calls'[c].result.outcome = "error"
               /\ answers' = answers /\ sessions' = sessions
               /\ reportCalls' = reportCalls]_vars

\* a request with an unknown key was refused on a session that is in progress
\* and has answers
C15_Witness ==
  \E c \in CallIds :
    /\ calls[c].pc = "finished"
    /\ calls[c].result.error = "Question not found"
    /\ \E s \in SessionIds : sessions[s].analysis_status = "in_progress" /\ AnsweredCount(s) > 0

\* C16: every answer row references a question row and a session row; an
\* answer request under an id that has no session row writes no row.
C16_AnswersReferenceSessions ==
  \A r \in BagToSet(answers) :
    r.question_id \in QuestionIds /\ SessionExists(r.session_id)

\* C17: a getFinalReport request gets past its first statement only for a
\* session row in status completed; for an id without a row and for a row in
\* status processing, in_progress or failed it ends at once with an error and
\* its response carries no report.
C17_ReportOnlyWhenCompleted ==
  [][\A c \in PollCalls :
       /\ (calls[c].pc = "idle" /\ calls'[c].pc = "report_answers")
            => /\ SessionExists(calls'[c].sessionId)
               /\ sessions[calls'[c].sessionId].analysis_status = "completed"
       /\ (calls[c].pc = "idle" /\ calls'[c].result.error = "Completed session not found")
            => /\ calls'[c].pc = "finished"
               /\ calls'[c].result.outcome = "error"
               /\ calls'[c].result.report = "null"
       /\ (calls'[c].pc = "finished" /\ calls'[c].result.outcome = "error")
            => calls'[c].result.report = "null"]_vars

\* a report request was refused while the only session is in progress
C17_Witness ==
  \E c \in PollCalls :
    /\ calls[c].pc = "finished"
    /\ calls[c].result.error = "Completed session not found"
    /\ \A s \in SessionIds : sessions[s].analysis_status = "in_progress"

\* the engine's text for the derivation request of c did not parse
DerivationUnparsed(c) == ~calls[c].response.parsable

\* the row the primary INSERT of request c writes
PrimaryRow(c) ==
  [question_id |-> QuestionByKey(calls[c].questionKey), session_id |-> calls[c].sessionId,
   answer_text |-> calls[c].userAnswer, confidence_score |-> UserConfidence,
   source |-> "user"]

C19_DerivationErrorDegrades ==
  [][\A c \in CallIds :
       (calls[c].pc = "analyze" /\ calls'[c].pc = "finished")
         => calls'[c].result.outcome = "ok"]_vars

\* C20: when the engine call for the auto-answers fails, the background run
\* does not go to its failure handler: it goes on with no auto-answers.
C20_AutoAnswerErrorDegrades ==
  [][\A s \in SessionIds :
       run[s].pc = "ai" => run'[s].pc # "catch"]_vars

\* C21: a run whose auto-answer response does not parse goes on with an
\* empty list of auto-answers: its auto-answer step adds no row, and the run
\* never passes to its failure handler.
C21_UnparsedAutoAnswers ==
  [][\A s \in SessionIds :
       ~run[s].response.parsable
         => /\ run[s].agentAnalysis = <<>>
            /\ (run[s].pc = "auto" /\ run'[s] # run[s]) => answers' = answers
            /\ run'[s].pc # "catch"]_vars

\* C22: a report response that does not parse does not end the request with
\* an error (the only error at that step is that of the engine call); the
\* request goes on with the placeholder report, and its next step stores that
\* report on the session, sets the session to completed and returns success.
C22_UnparsedReport ==
  [][\A c \in CallIds :
       /\ (calls[c].pc = "report_engine" /\ calls'[c].pc = "finished")
            => calls'[c].result.error = "engine"
       /\ (calls[c].pc = "report_update" /\ calls[c].report = "fallback"
              /\ calls'[c] # calls[c])
            => /\ sessions'[calls[c].sessionId].analysis_status = "completed"
               /\ sessions'[calls[c].sessionId].recommendations = "fallback"
               /\ calls'[c].pc = "finished"
               /\ calls'[c].result.outcome = "ok"
               /\ calls'[c].result.isComplete]_vars

\* a session is completed with the placeholder report stored
C22_Witness ==
  \E s \in SessionIds :
    /\ sessions[s].analysis_status = "completed"
    /\ sessions[s].recommendations = "fallback"
    /\ \E c \in CallIds : calls[c].pc = "finished" /\ calls[c].result.isComplete

\* C23: when the engine call of report synthesis fails, the request that
\* answered the last question does not end with an error.
C23_ReportErrorDegrades ==
  [][\A c \in CallIds :
       (calls[c].pc = "report_engine" /\ calls'[c].pc = "finished")
         => calls'[c].result.outcome = "ok"]_vars

\* C24: the progress percentage recorded on a session never decreases.
C24_ProgressMonotone ==
  [][\A s \in SessionIds :
       sessions'[s].progress_data >= sessions[s].progress_data]_vars

\* the questions that have an answer row in session s
AnsweredQuestions(s) == {q \in QuestionIds : RowCount(s, q) > 0}

\* C25: for every session, the progress getReviewStatus returns is
\* round(100 * answered / total) with answered the number of questions that
\* have an answer in the session, and it is at most 100.
C25_ProgressIsShareAnswered ==
  \A s \in SessionIds :
    SessionExists(s) =>
      /\ getReviewStatus(s).progress
           = RoundPercent(Cardinality(AnsweredQuestions(s)), getTotalQuestions)
      /\ getReviewStatus(s).progress \in 0..100

\* C26: the additionalAnswersCount a submission returns is the number of
\* other questions that went from unanswered to answered through its derived
\* answers.  The count returned is the length of the derived list, so it is
\* that number exactly when every entry of the list, at the step that stores
\* it, has a known key, is not for the submitted question and is for a
\* question of the session that has no answer yet.
C26_CountsNewlyAnswered ==
  [][\A c \in CallIds :
       /\ (calls[c].pc \in {"unanswered", "report_update"} /\ calls'[c].pc = "finished"
            /\ calls'[c].result.outcome = "ok")
             => calls'[c].result.additionalAnswersCount = Len(calls[c].additionalAnswers)
       /\ (calls[c].pc = "derived" /\ calls[c].idx <= Len(calls[c].additionalAnswers)
            /\ calls'[c] # calls[c])
             => LET q == QuestionByKey(calls[c].additionalAnswers[calls[c].idx].questionKey)
                IN /\ q # 0
                   /\ q # QuestionByKey(calls[c].questionKey)
                   /\ RowsOf(answers, calls[c].sessionId, q) = EmptyBag]_vars

\* the sessions the step is a step of: the session of a run or of POST /start
\* that moves, and the session of an answer request that moves
ActingOn ==
  {s \in SessionIds : run'[s] # run[s] \/ startResponse'[s] # startResponse[s]}
    \cup {calls[c].sessionId : c \in {d \in CallIds : calls'[d] # calls[d] /\ calls[d].pc # "idle"}}

\* C27: a step of startReview, submitUserAnswer or report synthesis on one
\* session leaves the status, progress, stored report and answers of every
\* other session as they are, whatever the other operations are doing.
C27_SessionsIsolated ==
  [][\A b \in AllSessionIds \cup {OtherSession} :
       b \notin ActingOn =>
         /\ b \in TableIds => sessions'[b] = sessions[b]
         /\ \A q \in QuestionIds : RowsOf(answers', b, q) = RowsOf(answers, b, q)]_vars

\* the new session's run came to its end and wrote an answer, and a request
\* on the earlier session stored its report, both sessions being in the table
C27_Witness ==
  /\ run[FirstSession].pc = "done"
  /\ AnsweredCount(FirstSession) > 0
  /\ sessions[OtherSession].analysis_status = "completed"
  /\ sessions[OtherSession].recommendations # "null"
  /\ calls[FirstCall].pc = "finished"
  /\ calls[FirstCall].result.isComplete

\* C28: whenever no question of a session is unanswered any more, report
\* synthesis runs for the session and the session comes to be completed with
\* a stored report, also when it is the auto-answer step of the run that
\* answers the last open question.
C28_ZeroUnansweredSynthesizes ==
  \A s \in SessionIds :
    (SessionExists(s) /\ getUnansweredQuestions(s) = <<>>)
      ~> (/\ reportCalls[s] > 0
          /\ sessions[s].analysis_status = "completed"
          /\ sessions[s].recommendations # "null")

\* C29: a session in status completed has a stored report that report
\* synthesis wrote, and a report request that succeeds returns that stored
\* report.
C29_CompletedHasReport ==
  /\ \A s \in SessionIds :
       sessions[s].analysis_status = "completed"
         => reportCalls[s] > 0 /\ sessions[s].recommendations \in {"parsed", "fallback"}
  /\ \A c \in PollCalls :
       (calls[c].pc = "finished" /\ calls[c].result.outcome = "ok"
        /\ calls[c].result.report # NoResult.report)
         => calls[c].result.report \in {"parsed", "fallback"}

\* the rows after the entries i, i + 1, ... of a derived list have been stored
\* for session s, one after the other
RECURSIVE StoreDerivedFrom(_, _, _, _)
StoreDerivedFrom(rows, s, list, i) ==
  IF i > Len(list) THEN rows
  ELSE LET q == QuestionByKey(list[i].questionKey)
       IN StoreDerivedFrom(IF q # 0
                           THEN InsertOrReplaceAnswer(rows, q, s, list[i].answer,
                                                      list[i].confidence, "agent_derived")
                           ELSE rows,
                           s, list, i + 1)

\* the rows after a request has run the rest of its stores on its own, from
\* the position it is at
AfterStores(call, rows) ==
  IF call.pc = "primary"
  THEN StoreDerivedFrom(InsertOrReplaceAnswer(rows, QuestionByKey(call.questionKey),
                                              call.sessionId, call.userAnswer,
                                              UserConfidence, "user"),
                        call.sessionId, call.additionalAnswers, 1)
  ELSE IF call.pc = "derived"
  THEN StoreDerivedFrom(rows, call.sessionId, call.additionalAnswers, call.idx)
  ELSE rows

\* two requests that are storing answers for different questions of the same
\* session
StoringTogether(c, d) ==
  /\ c # d
  /\ calls[c].pc \in {"primary", "derived"}
  /\ calls[d].pc \in {"primary", "derived"}
  /\ calls[c].sessionId = calls[d].sessionId
  /\ calls[c].questionKey # calls[d].questionKey

\* C30: two submitUserAnswer requests on one session for different questions
\* commute.  Wherever the two are storing, finishing the one and then the
\* other leaves the same answers as the opposite order; and every step of a
\* request, interleaved with anything, stores exactly the next of the rows it
\* would store on its own and leaves the other request as it is, so every
\* interleaving ends with the answers of the two orders.
C30_SubmissionsCommute ==
  [][/\ \A c, d \in CallIds :
          StoringTogether(c, d)
            => AfterStores(calls[d], AfterStores(calls[c], answers))
                 = AfterStores(calls[c], AfterStores(calls[d], answers))
     /\ \A c \in CallIds :
          (calls[c].pc \in {"primary", "derived"} /\ calls'[c] # calls[c])
            => /\ AfterStores(calls'[c], answers') = AfterStores(calls[c], answers)
               /\ \A d \in CallIds \ {c} : calls'[d] = calls[d]]_vars

\* both requests, on one session and for different questions, have stored
\* their answer, and the first also stored a derived answer for the question
\* of the second
C30_Witness ==
  \E c, d \in CallIds :
    /\ StoringTogether(c, d)
    /\ calls[c].sessionId \in SessionIds
    /\ calls[c].pc = "derived" /\ calls[d].pc = "derived"
    /\ Len(calls[c].additionalAnswers) > 0
    /\ calls[c].idx > Len(calls[c].additionalAnswers)
    /\ calls[c].additionalAnswers[1].questionKey = calls[d].questionKey
    /\ RowCount(calls[c].sessionId, QuestionByKey(calls[d].questionKey)) > 1

\* the entries of a list of serviceStatus that name analysis k
EntriesNaming(list, k) == {i \in DOMAIN list : list[i].service = k}

\* C31: in the object the comprehensive collection returns, every analysis
\* that failed is listed exactly once, with a message, among the warnings
\* (type warning) when its failure is subscription-required and among the
\* errors (type error) otherwise; an analysis that succeeded is in neither
\* list; and successfulServices plus the lengths of the two lists is
\* totalServices, which is six.
C31_FailuresListedOnce ==
  \A s \in SessionIds :
    (run[s].pc \notin {"none", "inserted", "progress1", "progress2", "aws", "collecting"}
     /\ run[s].awsAnalysis.success)
      => LET status == run[s].awsAnalysis.data.serviceStatus
             outcomes == run[s].collectors
         IN /\ \A k \in Collectors :
                 LET inErrors == EntriesNaming(status.errors, k)
                     inWarnings == EntriesNaming(status.warnings, k)
                 IN /\ outcomes[k] = "ok" => inErrors = {} /\ inWarnings = {}
                    /\ outcomes[k] \in {"failed", "rejected"}
                         => /\ Cardinality(inErrors) = 1 /\ inWarnings = {}
                            /\ \A i \in inErrors :
                                 status.errors[i].type = "error"
                                   /\ status.errors[i].message # "none"
                    /\ outcomes[k] = "subscription"
                         => /\ Cardinality(inWarnings) = 1 /\ inErrors = {}
                            /\ \A i \in inWarnings :
                                 status.warnings[i].type = "warning"
                                   /\ status.warnings[i].message # "none"
            /\ status.totalServices = Len(CollectorOrder)
            /\ Len(CollectorOrder) = 6
            /\ status.successfulServices + Len(status.errors) + Len(status.warnings)
                 = status.totalServices

\* a collection has returned with a general failure, a subscription-required
\* failure and a success among its analyses
C31_Witness ==
  \E s \in SessionIds :
    /\ run[s].pc = "progress3"
    /\ run[s].awsAnalysis.success
    /\ Len(run[s].awsAnalysis.data.serviceStatus.errors) > 0
    /\ Len(run[s].awsAnalysis.data.serviceStatus.warnings) > 0
    /\ run[s].awsAnalysis.data.serviceStatus.successfulServices > 0

\* every sequence a query may return for the rows S under the ORDER BY of
\* getUnansweredQuestions: each row once, no row after one it sorts before
OrderedResults(S) ==
  LET n == Cardinality(S)
  IN {seq \in [1..n -> S] :
        /\ \A i, j \in 1..n : i # j => seq[i] # seq[j]
        /\ \A i, j \in 1..n : i < j => ~Before(seq[j], seq[i])}

\* the result of a status request that has returned its descriptor
StatusReturned(c) ==
  /\ calls[c].pc = "finished"
  /\ calls[c].result.outcome = "ok"
  /\ calls[c].result.status # NoResult.status

\* C32: the next question is deterministic.  For the questions and answers
\* of any state the ORDER BY of getUnansweredQuestions admits one sequence
\* only, which is the one returned; and two status requests of a session
\* between which no answer was written (answers are only ever added, so these
\* are the requests that report the same number of remaining questions)
\* report the same nextQuestion.
C32_NextQuestionDeterministic ==
  /\ \A s \in AllSessionIds :
       LET open == {q \in QuestionIds : RowsOf(answers, s, q) = EmptyBag}
       IN /\ Cardinality(OrderedResults(open)) = 1
          /\ getUnansweredQuestions(s) \in OrderedResults(open)
  /\ \A c, d \in CallIds :
       (StatusReturned(c) /\ StatusReturned(d)
        /\ calls[c].result.remainingQuestions = calls[d].result.remainingQuestions)
         => calls[c].result.nextQuestion = calls[d].result.nextQuestion

\* two status requests have returned with two questions of equal priority
\* still open, and both name a next question
C32_Witness ==
  \E c, d \in CallIds :
    /\ c # d
    /\ StatusReturned(c) /\ StatusReturned(d)
    /\ calls[c].result.remainingQuestions > 1
    /\ calls[d].result.remainingQuestions > 1
    /\ calls[c].result.nextQuestion # 0
    /\ Priority(calls[c].result.nextQuestion) = Priority(calls[d].result.nextQuestion)

\* the auto-answers of the run of s whose key is the key of a question
KnownAutoEntries(runs, s) ==
  {i \in DOMAIN runs[s].agentAnalysis :
     QuestionByKey(runs[s].agentAnalysis[i].questionKey) # 0}

\* C33: during the background run every auto-answer of the engine whose key
\* is the key of a question is stored as an answer of the session with source
\* agent (so a run that has ended has a row for each of them), and an
\* auto-answer with any other key stores nothing and does not abort the run.
C33_AutoAnswersStored ==
  [][\A s \in SessionIds :
       /\ (run[s].pc = "auto" /\ run[s].idx <= Len(run[s].agentAnalysis)
            /\ run'[s] # run[s])
             => LET entry == run[s].agentAnalysis[run[s].idx]
                    q == QuestionByKey(entry.questionKey)
                IN /\ run'[s].pc = "auto"
                   /\ q # 0 => answers' = answers (+) SetToBag({
                                   [question_id |-> q, session_id |-> s,
                                    answer_text |-> entry.answer,
                                    confidence_score |-> entry.confidence,
                                    source |-> "agent"]})
                   /\ q = 0 => answers' = answers
       /\ run'[s].pc \in {"done", "failed"}
             => \A i \in KnownAutoEntries(run', s) :
                  \E r \in AgentRows(answers', s) :
                    /\ r.question_id = QuestionByKey(run'[s].agentAnalysis[i].questionKey)
                    /\ r.answer_text = run'[s].agentAnalysis[i].answer
                    /\ r.confidence_score = run'[s].agentAnalysis[i].confidence]_vars

\* the questions the derived entries of a request name
DerivedQuestions(call) ==
  {QuestionByKey(call.additionalAnswers[i].questionKey) : i \in DOMAIN call.additionalAnswers}
    \ {0}

\* C34: the nextQuestion of a submitUserAnswer request that succeeds is the
\* first of the questions that are unanswered once the primary and all the
\* derived answers of the request are stored: it has no answer in the
\* session, no unanswered question sorts before it, it is neither the
\* question submitted nor one a derived answer names, and it is null exactly
\* when isComplete is true.
C34_NextQuestionAfterStores ==
  [][\A c \in CallIds :
       (calls[c].pc \in {"unanswered", "report_update"} /\ calls'[c].pc = "finished"
        /\ calls'[c].result.outcome = "ok")
         => LET s == calls[c].sessionId
                submitted == QuestionByKey(calls[c].questionKey)
                next == calls'[c].result.nextQuestion
                open == {q \in QuestionIds : RowsOf(answers, s, q) = EmptyBag}
            IN /\ \A q \in {submitted} \cup DerivedQuestions(calls[c]) : q \notin open
               /\ next # 0 => /\ next \in open
                              /\ \A q \in open \ {next} : Before(next, q)
                              /\ next # submitted
                              /\ next \notin DerivedQuestions(calls[c])
               /\ next = 0 => open = {}
               /\ calls'[c].result.isComplete <=> next = 0]_vars

\* a request that stored a derived answer has returned a next question
C34_Witness ==
  \E c \in CallIds :
    /\ calls[c].pc = "finished"
    /\ calls[c].result.outcome = "ok"
    /\ calls[c].result.additionalAnswersCount > 0
    /\ calls[c].result.nextQuestion # 0
    /\ ~calls[c].result.isComplete

\* C35: submitUserAnswer is all-or-nothing.  When a request fails, whatever
\* the reason, it has stored nothing: it fails from a position before its
\* first store, and the answers hold no user row with its text for its
\* session.
C35_FailureStoresNothing ==
  [][\A c \in CallIds :
       (calls[c].pc \notin {"idle", "finished"} /\ calls'[c].pc = "finished"
        /\ calls'[c].result.outcome = "error")
         => /\ calls[c].pc = "analyze"
            /\ \A r \in BagToSet(answers') :
                 ~(/\ r.session_id = calls[c].sessionId
                   /\ r.answer_text = calls[c].userAnswer
                   /\ r.source = "user")]_vars

\* C36: a final report that is stored for a session is never removed: no
\* step of any operation, the steps of the background run included, takes a
\* session that has a report to a state in which it has none.
C36_ReportIsKept ==
  [][\A s \in SessionIds :
       sessions[s].recommendations # NoSession.recommendations
         => sessions'[s].recommendations # NoSession.recommendations]_vars

\* the questions of session s that have an answer a user submitted
UserAnswered(rows, s) ==
  {q \in QuestionIds : \E r \in BagToSet(RowsOf(rows, s, q)) : r.source = "user"}

\* C37: an answer a user submitted while the session was still processing
\* survives the background run: from then on the question keeps its user
\* answer, and the auto-answer step of the run adds no row of its own to it.
C37_UserAnswerSurvivesRun ==
  \A s \in SessionIds, q \in QuestionIds :
    []((sessions[s].analysis_status = "processing" /\ q \in UserAnswered(answers, s))
         => [](/\ q \in UserAnswered(answers, s)
               /\ \A r \in AgentRows(answers, s) : r.question_id # q))
====
